---- MODULE Spec2Model ----
(***************************************************************************)
(* Falling-sand simulator (src/main.c): the grid of points, addNewPoint,   *)
(* the settling loop of sandGravity, the Bresenham rasterizer drawLine,    *)
(* drawAllPoints and the frame loop of main.                               *)
(*                                                                         *)
(* Three specifications share the variables:                               *)
(*   Spec      calls addNewPoint and sandGravity in any order on the grid  *)
(*             (the functions as a library, one call at a time);           *)
(*   FairSpec  Spec with weak fairness on the steps of the settling loop   *)
(*             (a running loop keeps executing);                           *)
(*   MainSpec  the frame loop of main, with the events and the pointer     *)
(*             positions chosen by the environment.                        *)
(***************************************************************************)
EXTENDS Integers, Sequences, FiniteSets

VARIABLES
    points,     \* Point points[ROWS][COLS]: points[row][col] = [exists, color]
    call,       \* the last library call: its arguments, its result, the target cell before it
    ncalls,     \* number of library calls made so far (bounded by MaxCalls)
    gpc,        \* sandGravity: "idle", "while" (loop test), "body", "done"
    sgCol,      \* sandGravity: parameter col
    sgRow,      \* sandGravity: parameter row
    sgColor,    \* sandGravity: local color
    falling,    \* sandGravity: local falling
    pc,         \* main: "test", "poll", "mouse", "present", "delay", "exit"
    quit,       \* main: local quit
    mouseHeld,  \* main: local mouseHeld
    prevX,      \* main: local prevX
    prevY,      \* main: local prevY
    result,     \* main: local result of the last single-cell addNewPoint
    frames,     \* number of frames started (bounded by MaxFrames)
    steps,      \* the steps the current frame has performed, in order
    shown,      \* what the last drawAllPoints handed to the renderer, in order
    painted,    \* main: the stroke in progress has painted in some frame
    dl,         \* drawLine: its position ("idle", "loop", "done"), parameters and locals
    visited,    \* drawLine: the cells the running call has visited, in order
    nlines      \* number of drawLine calls made so far (bounded by MaxLines)

libVars  == <<call, ncalls, gpc, sgCol, sgRow, sgColor, falling>>
mainVars == <<pc, quit, mouseHeld, prevX, prevY, result, frames, steps, shown, painted>>
lineVars == <<dl, visited, nlines>>
vars     == <<points, call, ncalls, gpc, sgCol, sgRow, sgColor, falling,
              pc, quit, mouseHeld, prevX, prevY, result, frames, steps, shown, painted,
              dl, visited, nlines>>

(***************************************************************************)
(* Sizes.  The source has COLS = 640/10 = 64 and ROWS = 480/10 = 48; the   *)
(* model keeps the grid small.                                             *)
(***************************************************************************)
COLS == 3
ROWS == 2
SCALING_FACTOR == 10
MaxCalls == 3
MaxFrames == 2
MaxLines == 1

Cols == 0 .. (COLS - 1)
Rows == 0 .. (ROWS - 1)

\* rand() results the model draws from
RandSamples == {0, 7}

\* varyColor, given the three rand() results it consumes; the fields are Uint8
varyColor(k1, k2, k3) ==
    [r |-> (200 + (k1 % 20)) % 256,
     g |-> (170 + (k2 % 20)) % 256,
     b |-> (60 + (k3 % 10)) % 256]

Colors == {varyColor(k, k, k) : k \in RandSamples}

\* The color field main leaves unset when it clears exists (never read while exists = 0)
Unset == [r |-> 0, g |-> 0, b |-> 0]

EmptyPoint == [exists |-> 0, color |-> Unset]
EmptyGrid == [row \in Rows |-> [col \in Cols |-> EmptyPoint]]

InBounds(col, row) == ~(col < 0 \/ col >= COLS \/ row < 0 \/ row >= ROWS)

\* addNewPoint, mutated: refuses a cell that already holds a grain
addNewPoint_KeepOld(pts, col, row, color) ==
    IF col < 0 \/ col >= COLS \/ row < 0 \/ row >= ROWS
    THEN [points |-> pts, ret |-> -1]
    ELSE IF pts[row][col].exists = 1
    THEN [points |-> pts, ret |-> 0]
    ELSE [points |-> [pts EXCEPT ![row][col] =
                         [exists |-> 1,
                          color |-> [r |-> color.r, g |-> color.g, b |-> color.b]]],
          ret |-> 0]

\* addNewPoint, mutated: the row test of the bounds check is off by one
addNewPoint_RowOffByOne(pts, col, row, color) ==
    IF col < 0 \/ col >= COLS \/ row < 0 \/ row > ROWS
    THEN [points |-> pts, ret |-> -1]
    ELSE IF row = ROWS
    THEN [points |-> pts, ret |-> 0]
    ELSE [points |-> [pts EXCEPT ![row][col] =
                         [exists |-> 1,
                          color |-> [r |-> color.r, g |-> color.g, b |-> color.b]]],
          ret |-> 0]

\* addNewPoint: the grid after the call and the value returned
addNewPoint(pts, col, row, color) ==
    IF col < 0 \/ col >= COLS \/ row < 0 \/ row >= ROWS
    THEN [points |-> pts, ret |-> -1]
    ELSE [points |-> [pts EXCEPT ![row][col] =
                         [exists |-> 1,
                          color |-> [r |-> color.r, g |-> color.g, b |-> color.b]]],
          ret |-> 0]

(***************************************************************************)
(* sandGravity.  The neighbour tests index the array with no bounds check: *)
(* a test whose index is outside the grid reads whatever the build finds   *)
(* there, so its outcome is a free choice between zero and non-zero.       *)
(***************************************************************************)
Indeterminate == {0, 1}

readExists(pts, col, row, u) ==
    IF InBounds(col, row) THEN pts[row][col].exists ELSE u

\* The cells one execution of the loop body tests, in order, given what it reads
bodyReads(pts, col, row, u1, u2) ==
    LET a == <<col + 1, row>>
        b == <<col - 1, row + 1>>
        c == <<col + 1, row + 1>>
    IN  IF readExists(pts, col + 1, row, u1) = 0 THEN <<a>>
        ELSE IF readExists(pts, col - 1, row + 1, u2) = 0 THEN <<a, b>>
        ELSE <<a, b, c>>

\* One execution of the body of the while loop: the grid and the flag after it
sandGravityBody(pts, col, row, color, u1, u2, u3) ==
    LET src == [pts EXCEPT ![row][col].exists = -1]
    IN  IF readExists(pts, col + 1, row, u1) = 0
        THEN [points |-> addNewPoint(src, col + 1, row, color).points, falling |-> 1]
        ELSE IF readExists(pts, col - 1, row + 1, u2) = 0
        THEN [points |-> addNewPoint(src, col - 1, row + 1, color).points, falling |-> 1]
        ELSE IF readExists(pts, col + 1, row + 1, u3) = 0
        THEN [points |-> addNewPoint(src, col - 1, row + 1, color).points, falling |-> 1]
        ELSE [points |-> pts, falling |-> 0]

\* drawLine not running: parameters and locals hold nothing
IdleLine == [pc |-> "idle", x1 |-> 0, y1 |-> 0, x2 |-> 0, y2 |-> 0,
             dx |-> 0, dy |-> 0, sx |-> 0, sy |-> 0, err |-> 0, x |-> 0, y |-> 0]

NoCall == [op |-> "none", col |-> 0, row |-> 0, color |-> Unset, ret |-> 0, was |-> EmptyPoint]

Init ==
    /\ points = EmptyGrid
    /\ call = NoCall
    /\ ncalls = 0
    /\ gpc = "idle"
    /\ sgCol = 0
    /\ sgRow = 0
    /\ sgColor = Unset
    /\ falling = 0
    /\ pc = "test"
    /\ quit = 0
    /\ mouseHeld = FALSE
    /\ prevX = -1
    /\ prevY = -1
    /\ result = 0
    /\ frames = 0
    /\ steps = <<>>
    /\ shown = <<>>
    /\ painted = FALSE
    /\ dl = IdleLine
    /\ visited = <<>>
    /\ nlines = 0

\* A call addNewPoint(points, col, row, color), in bounds or not
CallAddNewPoint(col, row, color) ==
    /\ gpc = "idle"
    /\ dl.pc = "idle"
    /\ ncalls < MaxCalls
    /\ LET res == addNewPoint(points, col, row, color)
       IN  /\ points' = res.points
           /\ call' = [op |-> "addNewPoint", col |-> col, row |-> row, color |-> color,
                       ret |-> res.ret,
                       was |-> IF InBounds(col, row) THEN points[row][col] ELSE EmptyPoint]
    /\ ncalls' = ncalls + 1
    /\ UNCHANGED <<gpc, sgCol, sgRow, sgColor, falling>>
    /\ UNCHANGED mainVars
    /\ UNCHANGED lineVars

\* A call sandGravity(points, col, row) on an occupied cell: entry, up to the loop test
CallSandGravity(col, row) ==
    /\ gpc = "idle"
    /\ dl.pc = "idle"
    /\ ncalls < MaxCalls
    /\ InBounds(col, row)
    /\ points[row][col].exists = 1
    /\ gpc' = "while"
    /\ sgCol' = col
    /\ sgRow' = row
    /\ sgColor' = points[row][col].color
    /\ falling' = 1
    /\ call' = [op |-> "sandGravity", col |-> col, row |-> row,
                color |-> points[row][col].color, ret |-> 0, was |-> points[row][col]]
    /\ ncalls' = ncalls + 1
    /\ UNCHANGED points
    /\ UNCHANGED mainVars
    /\ UNCHANGED lineVars

\* while (falling == 1)
SandGravityWhile ==
    /\ gpc = "while"
    /\ gpc' = IF falling = 1 THEN "body" ELSE "done"
    /\ UNCHANGED <<points, call, ncalls, sgCol, sgRow, sgColor, falling>>
    /\ UNCHANGED mainVars
    /\ UNCHANGED lineVars

\* the if / else-if chain of the loop body
SandGravityBody ==
    /\ gpc = "body"
    /\ \E u1 \in Indeterminate, u2 \in Indeterminate, u3 \in Indeterminate :
          LET res == sandGravityBody(points, sgCol, sgRow, sgColor, u1, u2, u3)
          IN  /\ points' = res.points
              /\ falling' = res.falling
    /\ gpc' = "while"
    /\ UNCHANGED <<call, ncalls, sgCol, sgRow, sgColor>>
    /\ UNCHANGED mainVars
    /\ UNCHANGED lineVars

\* return 0
SandGravityReturn ==
    /\ gpc = "done"
    /\ gpc' = "idle"
    /\ sgCol' = 0
    /\ sgRow' = 0
    /\ sgColor' = Unset
    /\ falling' = 0
    /\ UNCHANGED <<points, call, ncalls>>
    /\ UNCHANGED mainVars
    /\ UNCHANGED lineVars

ArgCols == -1 .. COLS
ArgRows == -1 .. ROWS

Next ==
    \/ \E col \in ArgCols, row \in ArgRows, color \in Colors : CallAddNewPoint(col, row, color)
    \/ \E col \in Cols, row \in Rows : CallSandGravity(col, row)
    \/ SandGravityWhile
    \/ SandGravityBody
    \/ SandGravityReturn

Spec == Init /\ [][Next]_vars

FairSpec == Spec /\ WF_vars(SandGravityWhile) /\ WF_vars(SandGravityBody)
(***************************************************************************)
(* drawLine: Bresenham's line from (x1, y1) to (x2, y2).                   *)
(***************************************************************************)
Abs(n) == IF n < 0 THEN -n ELSE n

\* The step at the end of one loop iteration, mutated: the test e2 < dx is
\* dropped, so the row advances in every iteration
bresenhamStep_AlwaysRow(x, y, dx, dy, sx, sy, err) ==
    LET e2   == 2 * err
        errA == IF e2 > -dy THEN err - dy ELSE err
        xN   == IF e2 > -dy THEN x + sx ELSE x
    IN  [x |-> xN, y |-> y + sy, err |-> errA + dx]

\* The step at the end of one loop iteration (after the break test): the new
\* x, y and err
\* bresenhamStep, mutated: the column advances by two cells
bresenhamStep_ColTwice(x, y, dx, dy, sx, sy, err) ==
    LET e2 == 2 * err
        errA == IF e2 > -dy THEN err - dy ELSE err
        xN == IF e2 > -dy THEN x + 2 * sx ELSE x
        errB == IF e2 < dx THEN errA + dx ELSE errA
        yN == IF e2 < dx THEN y + sy ELSE y
    IN  [x |-> xN, y |-> yN, err |-> errB]

bresenhamStep(x, y, dx, dy, sx, sy, err) ==
    LET e2   == 2 * err
        errA == IF e2 > -dy THEN err - dy ELSE err
        xN   == IF e2 > -dy THEN x + sx ELSE x
        errB == IF e2 < dx THEN errA + dx ELSE errA
        yN   == IF e2 < dx THEN y + sy ELSE y
    IN  [x |-> xN, y |-> yN, err |-> errB]

\* The cells the while loop visits from (x, y) on, in order
RECURSIVE lineFrom(_, _, _, _, _, _, _, _, _)
lineFrom(x, y, x2, y2, dx, dy, sx, sy, err) ==
    IF x = x2 /\ y = y2
    THEN << <<x, y>> >>
    ELSE LET n == bresenhamStep(x, y, dx, dy, sx, sy, err)
         IN  << <<x, y>> >> \o lineFrom(n.x, n.y, x2, y2, dx, dy, sx, sy, n.err)

\* The cells drawLine visits, in order
linePath(x1, y1, x2, y2) ==
    LET dx == Abs(x2 - x1)
        dy == Abs(y2 - y1)
        sx == IF x1 < x2 THEN 1 ELSE -1
        sy == IF y1 < y2 THEN 1 ELSE -1
    IN  lineFrom(x1, y1, x2, y2, dx, dy, sx, sy, dx - dy)

\* The grid after the first n cells of path are visited; cs[i] is the color
\* varyColor returns if the i-th cell is painted
RECURSIVE paintPath(_, _, _, _)
paintPath(pts, path, cs, n) ==
    IF n = 0
    THEN pts
    ELSE LET before == paintPath(pts, path, cs, n - 1)
             x == path[n][1]
             y == path[n][2]
         IN  IF x >= 0 /\ x < COLS /\ y >= 0 /\ y < ROWS
             THEN IF before[y][x].exists = 0
                  THEN addNewPoint(before, x, y, cs[n]).points
                  ELSE before
             ELSE before

\* drawLine: the grid after the call
drawLine(pts, x1, y1, x2, y2, cs) ==
    LET path == linePath(x1, y1, x2, y2)
    IN  paintPath(pts, path, cs, Len(path))

\* drawAllPoints: the (col, row, color) triples handed to the renderer, row-major
\* drawAllPoints, mutated: the inner loop stops one column early
drawAllPoints_SkipLastCol(pts) ==
    LET RECURSIVE from(_)
        from(k) ==
            IF k >= ROWS * COLS
            THEN <<>>
            ELSE LET row == k \div COLS
                     col == k % COLS
                 IN  (IF col < COLS - 1 /\ pts[row][col].exists = 1
                      THEN << <<col, row, pts[row][col].color>> >>
                      ELSE <<>>) \o from(k + 1)
    IN  from(0)

RECURSIVE drawFrom(_, _)
drawFrom(pts, k) ==
    IF k >= ROWS * COLS
    THEN <<>>
    ELSE LET row == k \div COLS
             col == k % COLS
         IN  (IF pts[row][col].exists = 1
              THEN << <<col, row, pts[row][col].color>> >>
              ELSE <<>>) \o drawFrom(pts, k + 1)

drawAllPoints(pts) == drawFrom(pts, 0)

(***************************************************************************)
(* drawLine as a library call, one loop iteration at a time.               *)
(***************************************************************************)
\* A call drawLine(renderer, points, x1, y1, x2, y2): entry, up to the loop
CallDrawLine(x1, y1, x2, y2) ==
    /\ gpc = "idle"
    /\ dl.pc = "idle"
    /\ ncalls < MaxCalls
    /\ nlines < MaxLines
    /\ dl' = [pc |-> "loop", x1 |-> x1, y1 |-> y1, x2 |-> x2, y2 |-> y2,
              dx |-> Abs(x2 - x1), dy |-> Abs(y2 - y1),
              sx |-> IF x1 < x2 THEN 1 ELSE -1,
              sy |-> IF y1 < y2 THEN 1 ELSE -1,
              err |-> Abs(x2 - x1) - Abs(y2 - y1),
              x |-> x1, y |-> y1]
    /\ visited' = <<>>
    /\ call' = [NoCall EXCEPT !.op = "drawLine"]
    /\ ncalls' = ncalls + 1
    /\ nlines' = nlines + 1
    /\ UNCHANGED <<points, gpc, sgCol, sgRow, sgColor, falling>>
    /\ UNCHANGED mainVars

\* One iteration of while (1), mutated: the end test comes before the point
\* is added, so the last cell is visited but not painted
DrawLineIter_BreakFirst ==
    /\ dl.pc = "loop"
    /\ IF dl.x = dl.x2 /\ dl.y = dl.y2
       THEN UNCHANGED points
       ELSE IF dl.x >= 0 /\ dl.x < COLS /\ dl.y >= 0 /\ dl.y < ROWS
            THEN IF points[dl.y][dl.x].exists = 0
                 THEN \E color \in Colors :
                         points' = addNewPoint(points, dl.x, dl.y, color).points
                 ELSE UNCHANGED points
            ELSE UNCHANGED points
    /\ visited' = Append(visited, <<dl.x, dl.y>>)
    /\ IF dl.x = dl.x2 /\ dl.y = dl.y2
       THEN dl' = [dl EXCEPT !.pc = "done"]
       ELSE LET n == bresenhamStep(dl.x, dl.y, dl.dx, dl.dy, dl.sx, dl.sy, dl.err)
            IN  dl' = [dl EXCEPT !.x = n.x, !.y = n.y, !.err = n.err]
    /\ UNCHANGED <<call, ncalls, nlines, gpc, sgCol, sgRow, sgColor, falling>>
    /\ UNCHANGED mainVars

\* One iteration of while (1): add the point, test for the end, step
DrawLineIter ==
    /\ dl.pc = "loop"
    /\ IF dl.x >= 0 /\ dl.x < COLS /\ dl.y >= 0 /\ dl.y < ROWS
       THEN IF points[dl.y][dl.x].exists = 0
            THEN \E color \in Colors :
                    points' = addNewPoint(points, dl.x, dl.y, color).points
            ELSE UNCHANGED points
       ELSE UNCHANGED points
    /\ visited' = Append(visited, <<dl.x, dl.y>>)
    /\ IF dl.x = dl.x2 /\ dl.y = dl.y2
       THEN dl' = [dl EXCEPT !.pc = "done"]
       ELSE LET n == bresenhamStep(dl.x, dl.y, dl.dx, dl.dy, dl.sx, dl.sy, dl.err)
            IN  dl' = [dl EXCEPT !.x = n.x, !.y = n.y, !.err = n.err]
    /\ UNCHANGED <<call, ncalls, nlines, gpc, sgCol, sgRow, sgColor, falling>>
    /\ UNCHANGED mainVars

\* return 0
DrawLineReturn ==
    /\ dl.pc = "done"
    /\ dl' = IdleLine
    /\ visited' = <<>>
    /\ UNCHANGED <<points, call, ncalls, nlines, gpc, sgCol, sgRow, sgColor, falling>>
    /\ UNCHANGED mainVars

\* Strokes on the empty grid: every pair of endpoints up to one cell beyond it
LineNext ==
    \/ \E x1 \in ArgCols, y1 \in ArgRows, x2 \in ArgCols, y2 \in ArgRows :
          points = EmptyGrid /\ CallDrawLine(x1, y1, x2, y2)
    \/ DrawLineIter
    \/ DrawLineReturn

LineSpec == Init /\ [][LineNext]_vars

FairLineSpec == LineSpec /\ WF_vars(DrawLineIter)

\* addNewPoint, sandGravity and drawLine called in any order
StrokeNext ==
    \/ Next
    \/ \E x1 \in ArgCols, y1 \in ArgRows, x2 \in ArgCols, y2 \in ArgRows :
          CallDrawLine(x1, y1, x2, y2)
    \/ DrawLineIter
    \/ DrawLineReturn

StrokeSpec == Init /\ [][StrokeNext]_vars

(***************************************************************************)
(* main: the frame loop.                                                   *)
(***************************************************************************)
\* C integer division (truncation toward zero)
CDiv(a, b) == IF a >= 0 THEN a \div b ELSE -((-a) \div b)

EventTypes == {"SDL_MOUSEBUTTONDOWN", "SDL_MOUSEBUTTONUP", "SDL_QUIT", "other"}

\* Pointer positions SDL_GetMouseState reports, in pixels.  Columns: the middle
\* of every cell, of one cell right of the grid, and two positions left of the
\* window (one that the division truncates to column 0, one that it maps to
\* column -1).  Rows: the middle of every cell and one position above the window.
PixelXs == {c * SCALING_FACTOR + 5 : c \in 0 .. COLS} \cup {-5, -(SCALING_FACTOR + 5)}
PixelYs == {c * SCALING_FACTOR + 5 : c \in 0 .. ROWS - 1} \cup {-(SCALING_FACTOR + 5)}

\* while (!quit): a new frame starts, or the loop is left and main returns
MainTest ==
    /\ pc = "test"
    /\ IF quit # 0
       THEN /\ pc' = "exit"
            /\ UNCHANGED <<frames, steps>>
       ELSE /\ frames < MaxFrames
            /\ pc' = "poll"
            /\ frames' = frames + 1
            /\ steps' = <<>>
    /\ UNCHANGED <<points, quit, mouseHeld, prevX, prevY, result, shown, painted>>
    /\ UNCHANGED libVars
    /\ UNCHANGED lineVars

\* MainPollEvent, mutated: a button release keeps the previous cell
MainPollEvent_NoReset(e) ==
    /\ pc = "poll"
    /\ mouseHeld' = IF e = "SDL_MOUSEBUTTONDOWN" THEN TRUE
                    ELSE IF e = "SDL_MOUSEBUTTONUP" THEN FALSE
                    ELSE mouseHeld
    /\ prevX' = prevX
    /\ prevY' = prevY
    /\ quit' = IF e = "SDL_QUIT" THEN 1 ELSE quit
    /\ painted' = IF e = "SDL_MOUSEBUTTONUP" THEN FALSE ELSE painted
    /\ pc' = pc
    /\ UNCHANGED <<points, result, frames, steps, shown>>
    /\ UNCHANGED libVars
    /\ UNCHANGED lineVars

\* MainPollEvent, mutated: a button release resets prevX only
MainPollEvent_ResetXOnly(e) ==
    /\ pc = "poll"
    /\ mouseHeld' = IF e = "SDL_MOUSEBUTTONDOWN" THEN TRUE
                    ELSE IF e = "SDL_MOUSEBUTTONUP" THEN FALSE
                    ELSE mouseHeld
    /\ prevX' = IF e = "SDL_MOUSEBUTTONUP" THEN -1 ELSE prevX
    /\ prevY' = prevY
    /\ quit' = IF e = "SDL_QUIT" THEN 1 ELSE quit
    /\ painted' = IF e = "SDL_MOUSEBUTTONUP" THEN FALSE ELSE painted
    /\ pc' = pc
    /\ UNCHANGED <<points, result, frames, steps, shown>>
    /\ UNCHANGED libVars
    /\ UNCHANGED lineVars

\* MainPollEvent, mutated: a quit event leaves the frame loop at once
MainPollEvent_QuitLeaves(e) ==
    /\ pc = "poll"
    /\ mouseHeld' = IF e = "SDL_MOUSEBUTTONDOWN" THEN TRUE
                    ELSE IF e = "SDL_MOUSEBUTTONUP" THEN FALSE
                    ELSE mouseHeld
    /\ prevX' = IF e = "SDL_MOUSEBUTTONUP" THEN -1 ELSE prevX
    /\ prevY' = IF e = "SDL_MOUSEBUTTONUP" THEN -1 ELSE prevY
    /\ quit' = IF e = "SDL_QUIT" THEN 1 ELSE quit
    /\ painted' = IF e = "SDL_MOUSEBUTTONUP" THEN FALSE ELSE painted
    /\ pc' = IF e = "SDL_QUIT" THEN "exit" ELSE pc
    /\ UNCHANGED <<points, result, frames, steps, shown>>
    /\ UNCHANGED libVars
    /\ UNCHANGED lineVars

\* SDL_PollEvent returns an event of type e: the three ifs of the inner loop
MainPollEvent(e) ==
    /\ pc = "poll"
    /\ mouseHeld' = IF e = "SDL_MOUSEBUTTONDOWN" THEN TRUE
                    ELSE IF e = "SDL_MOUSEBUTTONUP" THEN FALSE
                    ELSE mouseHeld
    /\ prevX' = IF e = "SDL_MOUSEBUTTONUP" THEN -1 ELSE prevX
    /\ prevY' = IF e = "SDL_MOUSEBUTTONUP" THEN -1 ELSE prevY
    /\ quit' = IF e = "SDL_QUIT" THEN 1 ELSE quit
    /\ painted' = IF e = "SDL_MOUSEBUTTONUP" THEN FALSE ELSE painted
    /\ UNCHANGED <<points, pc, result, frames, steps, shown>>
    /\ UNCHANGED libVars
    /\ UNCHANGED lineVars

\* SDL_PollEvent returns 0: the events are drained
MainPollEmpty ==
    /\ pc = "poll"
    /\ pc' = "mouse"
    /\ steps' = Append(steps, "poll")
    /\ UNCHANGED <<points, quit, mouseHeld, prevX, prevY, result, frames, shown, painted>>
    /\ UNCHANGED libVars
    /\ UNCHANGED lineVars

\* if (mouseHeld), with the pointer at pixel (px, py)
MainPaint(px, py) ==
    /\ pc = "mouse"
    /\ mouseHeld
    /\ LET mouseX == CDiv(px, SCALING_FACTOR)
           mouseY == CDiv(py, SCALING_FACTOR)
       IN  /\ IF (prevX >= 0) /\ (prevY >= 0)
              THEN /\ \E cs \in [1 .. Len(linePath(prevX, prevY, mouseX, mouseY)) -> Colors] :
                         points' = drawLine(points, prevX, prevY, mouseX, mouseY, cs)
                   /\ UNCHANGED result
              ELSE \E color \in Colors :
                      LET res == addNewPoint(points, mouseX, mouseY, color)
                      IN  /\ points' = res.points
                          /\ result' = res.ret
           /\ prevX' = mouseX
           /\ prevY' = mouseY
    /\ pc' = "present"
    /\ steps' = Append(steps, "paint")
    /\ painted' = TRUE
    /\ UNCHANGED <<quit, mouseHeld, frames, shown>>
    /\ UNCHANGED libVars
    /\ UNCHANGED lineVars

\* if (mouseHeld) not taken
MainNoPaint ==
    /\ pc = "mouse"
    /\ ~mouseHeld
    /\ pc' = "present"
    /\ UNCHANGED <<points, quit, mouseHeld, prevX, prevY, result, frames, steps, shown, painted>>
    /\ UNCHANGED libVars
    /\ UNCHANGED lineVars

\* drawAllPoints(renderer, points)
MainPresent ==
    /\ pc = "present"
    /\ shown' = drawAllPoints(points)
    /\ steps' = Append(steps, "present")
    /\ pc' = "delay"
    /\ UNCHANGED <<points, quit, mouseHeld, prevX, prevY, result, frames, painted>>
    /\ UNCHANGED libVars
    /\ UNCHANGED lineVars

\* SDL_Delay(16)
MainDelay ==
    /\ pc = "delay"
    /\ pc' = "test"
    /\ UNCHANGED <<points, quit, mouseHeld, prevX, prevY, result, frames, steps, shown, painted>>
    /\ UNCHANGED libVars
    /\ UNCHANGED lineVars

MainNext ==
    \/ MainTest
    \/ \E e \in EventTypes : MainPollEvent(e)
    \/ MainPollEmpty
    \/ \E px \in PixelXs, py \in PixelYs : MainPaint(px, py)
    \/ MainNoPaint
    \/ MainPresent
    \/ MainDelay

MainSpec == Init /\ [][MainNext]_vars

(***************************************************************************)
(* Vocabulary of the claims.                                               *)
(***************************************************************************)
\* A cell is occupied when exists = 1 (what drawAllPoints draws)
occupied(pts, col, row) == pts[row][col].exists = 1

OccupiedCells(pts) == {p \in Cols \X Rows : occupied(pts, p[1], p[2])}

\* A neighbour blocks a grain when it is off the grid or occupied
blocked(pts, col, row) == ~InBounds(col, row) \/ occupied(pts, col, row)

\* Below, below-left and below-right of (col, row) are all blocked
boxedIn(pts, col, row) ==
    /\ blocked(pts, col, row + 1)
    /\ blocked(pts, col - 1, row + 1)
    /\ blocked(pts, col + 1, row + 1)

\* The cells where the running sandGravity call can have left its grain
grainCells ==
    {p \in {<<sgCol, sgRow>>, <<sgCol + 1, sgRow>>, <<sgCol - 1, sgRow + 1>>} :
        /\ InBounds(p[1], p[2])
        /\ points[p[2]][p[1]] = [exists |-> 1, color |-> sgColor]}

\* This step is a call of addNewPoint
isAddNewPointStep == ncalls' = ncalls + 1 /\ call'.op = "addNewPoint"

(***************************************************************************)
(* C1.  Conservation: a step of the gravity rule leaves the number of      *)
(* occupied cells as it was; no grain is duplicated and none is lost.      *)
(***************************************************************************)
C1_Conservation ==
    [][gpc = "body" =>
          Cardinality(OccupiedCells(points')) = Cardinality(OccupiedCells(points))]_vars

(***************************************************************************)
(* C2.  Gravity never fails to finish: the settling loop of sandGravity    *)
(* terminates, that is, every call that has entered the loop reaches its   *)
(* exit (where the claim expects the grain settled: see GrainSettled).     *)
(***************************************************************************)
C2_GravityTerminates == [](gpc = "while" => <>(gpc = "done"))

\* At the exit of the loop the grain lies where below, below-left and
\* below-right are all occupied or off the grid
GrainSettled ==
    gpc = "done" =>
        /\ grainCells # {}
        /\ \A p \in grainCells : boxedIn(points, p[1], p[2])

(***************************************************************************)
(* C3.  Every cell the loop body of sandGravity tests lies inside the      *)
(* grid, also for a grain in the bottom row or in the first or last        *)
(* column (the cells it writes are its own and the one addNewPoint         *)
(* accepts, which are inside).                                             *)
(***************************************************************************)
C3_GravityStaysInBounds ==
    gpc = "body" =>
        \A u1 \in Indeterminate, u2 \in Indeterminate :
            LET reads == bodyReads(points, sgCol, sgRow, u1, u2)
            IN  \A i \in DOMAIN reads : InBounds(reads[i][1], reads[i][2])

(***************************************************************************)
(* C4.  A single grain in an otherwise empty grid, not in the bottom row,  *)
(* is moved by a gravity step to the cell directly below it: afterwards    *)
(* the only occupied cell is (col, row + 1), with the grain's color.       *)
(***************************************************************************)
C4_SingleGrainFallsOneRow ==
    [][(/\ gpc = "body"
        /\ sgRow + 1 < ROWS
        /\ \A p \in Cols \X Rows :
              points[p[2]][p[1]].exists = (IF p = <<sgCol, sgRow>> THEN 1 ELSE 0))
       => /\ OccupiedCells(points') = {<<sgCol, sgRow + 1>>}
          /\ points'[sgRow + 1][sgCol].color = sgColor]_vars

(***************************************************************************)
(* C5.  Left diagonal: a grain whose cell below is occupied and whose      *)
(* below-left and below-right cells are in bounds and empty is moved by a  *)
(* gravity step to below-left; its own cell becomes unoccupied and         *)
(* below-right stays unoccupied.                                           *)
(***************************************************************************)
C5_LeftDiagonalPreferred ==
    [][(/\ gpc = "body"
        /\ occupied(points, sgCol, sgRow)
        /\ InBounds(sgCol - 1, sgRow + 1)
        /\ InBounds(sgCol + 1, sgRow + 1)
        /\ occupied(points, sgCol, sgRow + 1)
        /\ points[sgRow + 1][sgCol - 1].exists = 0
        /\ points[sgRow + 1][sgCol + 1].exists = 0)
       => /\ ~occupied(points', sgCol, sgRow)
          /\ points'[sgRow + 1][sgCol - 1] = [exists |-> 1, color |-> sgColor]
          /\ ~occupied(points', sgCol + 1, sgRow + 1)]_vars

(***************************************************************************)
(* C6.  Right diagonal: a grain whose cells below and below-left are       *)
(* occupied or off the grid and whose below-right cell is in bounds and    *)
(* empty is moved by a gravity step to below-right, leaving its own cell   *)
(* unoccupied.                                                             *)
(***************************************************************************)
C6_RightDiagonalLast ==
    [][(/\ gpc = "body"
        /\ occupied(points, sgCol, sgRow)
        /\ blocked(points, sgCol, sgRow + 1)
        /\ blocked(points, sgCol - 1, sgRow + 1)
        /\ InBounds(sgCol + 1, sgRow + 1)
        /\ points[sgRow + 1][sgCol + 1].exists = 0)
       => /\ ~occupied(points', sgCol, sgRow)
          /\ points'[sgRow + 1][sgCol + 1] = [exists |-> 1, color |-> sgColor]]_vars

(***************************************************************************)
(* C7.  A grain that is boxed in (below, below-left and below-right each   *)
(* occupied or off the grid) does not move: a gravity step leaves every    *)
(* cell of the grid unchanged.                                             *)
(***************************************************************************)
C7_BoxedInStays ==
    [][(/\ gpc = "body"
        /\ occupied(points, sgCol, sgRow)
        /\ boxedIn(points, sgCol, sgRow))
       => points' = points]_vars

(***************************************************************************)
(* C8.  Frame order: when a frame has been presented, its steps were, in   *)
(* this order, draining the events, painting (only if the button is held), *)
(* the gravity pass over the grid, and the presentation.                   *)
(***************************************************************************)
C8_FrameOrder ==
    pc = "delay" =>
        steps \in {<<"poll", "paint", "gravity", "present">>, <<"poll", "gravity", "present">>}

(***************************************************************************)
(* C9.  addNewPoint outside the grid returns -1 and leaves every cell      *)
(* unchanged; inside the grid it returns 0.                                *)
(***************************************************************************)
C9_OutOfBoundsPlacement ==
    [][isAddNewPointStep =>
          IF call'.col < 0 \/ call'.col >= COLS \/ call'.row < 0 \/ call'.row >= ROWS
          THEN call'.ret = -1 /\ points' = points
          ELSE call'.ret = 0]_vars

\* An out-of-bounds addNewPoint has returned -1 on a grid that holds a grain
C9_Witness ==
    /\ call.op = "addNewPoint"
    /\ ~InBounds(call.col, call.row)
    /\ call.ret = -1
    /\ OccupiedCells(points) # {}

(***************************************************************************)
(* C10.  Painting overwrites: addNewPoint on an in-bounds cell leaves the  *)
(* cell occupied with the color given, whatever the cell held before (a    *)
(* grain of another color included), and changes no other cell.            *)
(***************************************************************************)
C10_PaintingOverwrites ==
    [][(isAddNewPointStep /\ InBounds(call'.col, call'.row))
       => points' = [points EXCEPT ![call'.row][call'.col] =
                        [exists |-> 1, color |-> call'.color]]]_vars

\* A cell painted with one color has been painted again with another
C10_Witness ==
    /\ call.op = "addNewPoint"
    /\ InBounds(call.col, call.row)
    /\ call.was.exists = 1
    /\ call.was.color # call.color
    /\ points[call.row][call.col] = [exists |-> 1, color |-> call.color]
(***************************************************************************)
(* Vocabulary of the stroke claims.                                        *)
(***************************************************************************)
Min(a, b) == IF a < b THEN a ELSE b
Max(a, b) == IF a > b THEN a ELSE b

\* The running drawLine call is at its last cell
atLineEnd == dl.x = dl.x2 /\ dl.y = dl.y2

\* How far the running drawLine call is from its last cell
lineDistance == Max(Abs(dl.x2 - dl.x), Abs(dl.y2 - dl.y))

(***************************************************************************)
(* C11.  Horizontal stroke: on an empty grid, drawLine from (x1, y) to     *)
(* (x2, y), both in bounds, makes occupied exactly the cells (x, y) with   *)
(* min(x1, x2) <= x <= max(x1, x2), and no cell of another row.            *)
(***************************************************************************)
C11_HorizontalStroke ==
    (/\ dl.pc = "done"
     /\ dl.y1 = dl.y2
     /\ InBounds(dl.x1, dl.y1)
     /\ InBounds(dl.x2, dl.y2))
    => OccupiedCells(points) =
          {p \in Cols \X Rows :
              p[2] = dl.y1 /\ Min(dl.x1, dl.x2) <= p[1] /\ p[1] <= Max(dl.x1, dl.x2)}

\* A horizontal stroke across the whole width of the empty grid has returned
C11_Witness ==
    /\ dl.pc = "done"
    /\ dl.y1 = dl.y2
    /\ InBounds(dl.x1, dl.y1)
    /\ InBounds(dl.x2, dl.y2)
    /\ Abs(dl.x2 - dl.x1) = COLS - 1
    /\ Cardinality(OccupiedCells(points)) = COLS

(***************************************************************************)
(* C12.  Mid-stroke painting does not overwrite: every iteration of        *)
(* drawLine leaves each cell that was occupied as it was, leaves the       *)
(* visited cell occupied if it is in bounds (a grain is placed in it if    *)
(* it was unoccupied), and changes no cell but the visited one.            *)
(***************************************************************************)
C12_StrokeDoesNotOverwrite ==
    [][dl.pc = "loop" =>
          /\ \A p \in Cols \X Rows :
                (occupied(points, p[1], p[2]) \/ p # <<dl.x, dl.y>>)
                    => points'[p[2]][p[1]] = points[p[2]][p[1]]
          /\ InBounds(dl.x, dl.y) => occupied(points', dl.x, dl.y)]_vars

(***************************************************************************)
(* C15.  Vacated cells are repaintable: a cell whose grain has moved away  *)
(* is unoccupied like a cell never painted, so when a later drawLine has   *)
(* passed through it (as through any in-bounds cell) it holds a grain.     *)
(***************************************************************************)
C15_VacatedCellsRepaintable ==
    dl.pc = "done" =>
        \A i \in DOMAIN visited :
            InBounds(visited[i][1], visited[i][2])
                => occupied(points, visited[i][1], visited[i][2])

(***************************************************************************)
(* C16.  Rasterizer termination: for every pair of endpoints, in bounds    *)
(* or not, the loop of drawLine terminates (every iteration that does not  *)
(* end it comes one cell closer to the last cell), the first cell visited  *)
(* is (x1, y1), the last is (x2, y2), and coinciding endpoints give        *)
(* exactly one visited cell.  The endpoints range over the grid and one    *)
(* cell around it, where the int arithmetic of drawLine does not overflow. *)
(***************************************************************************)
C16_RasterizerTerminates ==
    /\ [](dl.pc = "loop" => <>(dl.pc = "done"))
    /\ [][(dl.pc = "loop" /\ ~atLineEnd) => lineDistance' = lineDistance - 1]_vars
    /\ [](dl.pc = "done" =>
             /\ visited[1] = <<dl.x1, dl.y1>>
             /\ visited[Len(visited)] = <<dl.x2, dl.y2>>
             /\ (dl.x1 = dl.x2 /\ dl.y1 = dl.y2) => Len(visited) = 1)

\* A stroke between two cells outside the grid, several cells apart, has returned
C16_Witness ==
    /\ dl.pc = "done"
    /\ ~InBounds(dl.x1, dl.y1)
    /\ ~InBounds(dl.x2, dl.y2)
    /\ Len(visited) = COLS + 2

(***************************************************************************)
(* C17.  No gaps in a stroke: two consecutive cells drawLine visits are    *)
(* distinct and differ by at most 1 in column and in row, and every cell   *)
(* visited lies in the bounding box of the two endpoints.                  *)
(***************************************************************************)
C17_NoGaps ==
    /\ [][(dl.pc = "loop" /\ ~atLineEnd) =>
             /\ Abs(dl'.x - dl.x) <= 1
             /\ Abs(dl'.y - dl.y) <= 1
             /\ <<dl'.x, dl'.y>> # <<dl.x, dl.y>>]_vars
    /\ [](dl.pc = "loop" =>
             /\ Min(dl.x1, dl.x2) <= dl.x /\ dl.x <= Max(dl.x1, dl.x2)
             /\ Min(dl.y1, dl.y2) <= dl.y /\ dl.y <= Max(dl.y1, dl.y2))

\* A slanted stroke (more columns than rows, both changing) has returned
C17_Witness ==
    /\ dl.pc = "done"
    /\ Abs(dl.y2 - dl.y1) >= 1
    /\ Abs(dl.x2 - dl.x1) > Abs(dl.y2 - dl.y1)
    /\ Len(visited) = Abs(dl.x2 - dl.x1) + 1

(***************************************************************************)
(* C20.  Two-valued occupancy: after any sequence of addNewPoint, drawLine *)
(* and sandGravity calls from the empty grid, every cell's exists field is *)
(* 0 or 1.                                                                 *)
(***************************************************************************)
C20_TwoValuedOccupancy ==
    \A p \in Cols \X Rows : points[p[2]][p[1]].exists \in {0, 1}
(***************************************************************************)
(* Vocabulary of the frame-loop claims.                                    *)
(***************************************************************************)
\* The position of a presented cell in row-major order
rowMajor(t) == t[2] * COLS + t[1]

\* The cell, with its stored color, of every occupied cell of the grid
occupiedWithColor(pts) ==
    {<<p[1], p[2], pts[p[2]][p[1]].color>> : p \in OccupiedCells(pts)}

(***************************************************************************)
(* C13.  Stroke separation: in the first painting frame after a button     *)
(* release (and in the first painting frame of the run) no previous cell   *)
(* is recorded, and the frame places a grain in the single cell under the  *)
(* pointer (if that cell is in bounds) and changes no other cell: no line  *)
(* joins the position where the previous stroke ended.                     *)
(***************************************************************************)
C13_StrokeSeparation ==
    /\ [](~painted => (prevX = -1 /\ prevY = -1))
    /\ [][(pc = "mouse" /\ mouseHeld /\ ~painted) =>
             /\ \A p \in Cols \X Rows :
                   p # <<prevX', prevY'>> => points'[p[2]][p[1]] = points[p[2]][p[1]]
             /\ InBounds(prevX', prevY') => occupied(points', prevX', prevY')]_vars

\* The second frame began a new stroke two columns away from the cell of the
\* first stroke, and the cell between them is still empty
C13_Witness ==
    /\ frames = 2
    /\ painted
    /\ steps = <<"poll", "paint">>
    /\ OccupiedCells(points) = {<<0, 0>>, <<2, 0>>}
    /\ prevX = 2 /\ prevY = 0

(***************************************************************************)
(* C14.  Quit: once a quit event has been drained no further frame starts, *)
(* the next loop test leaves the loop, and the frame in which the event    *)
(* arrived was completed first: it painted if the button was held, and it  *)
(* presented the grid.                                                     *)
(***************************************************************************)
C14_QuitCompletesFrame ==
    /\ [][quit # 0 => frames' = frames]_vars
    /\ [][(quit # 0 /\ pc = "test") => pc' = "exit"]_vars
    /\ [](pc = "exit" =>
             /\ quit # 0
             /\ steps = IF mouseHeld THEN <<"poll", "paint", "present">>
                                     ELSE <<"poll", "present">>)

\* main has returned after a quit event that arrived while the button was held
C14_Witness ==
    /\ pc = "exit"
    /\ mouseHeld
    /\ frames = 1
    /\ steps = <<"poll", "paint", "present">>
    /\ shown # <<>>

(***************************************************************************)
(* C18.  Presentation: drawAllPoints hands the renderer exactly the        *)
(* occupied cells, each once with its stored color, in row-major order,    *)
(* and leaves the grid unchanged.                                          *)
(***************************************************************************)
C18_Presentation ==
    [][pc = "present" =>
          /\ points' = points
          /\ {shown'[i] : i \in DOMAIN shown'} = occupiedWithColor(points)
          /\ \A i, j \in DOMAIN shown' :
                i < j => rowMajor(shown'[i]) < rowMajor(shown'[j])]_vars

\* A grid with grains in both rows and in the last column has been presented
C18_Witness ==
    /\ pc = "delay"
    /\ Len(shown) >= 3
    /\ \E i, j \in DOMAIN shown : shown[i][2] # shown[j][2]
    /\ \E i \in DOMAIN shown : shown[i][1] = COLS - 1

(***************************************************************************)
(* C19.  Stroke-state invariant: whenever mouseHeld is false, prevX = -1   *)
(* and prevY = -1; and a previous cell is recorded only by the painting    *)
(* step of a frame.                                                        *)
(***************************************************************************)
C19_StrokeState ==
    /\ [](~mouseHeld => (prevX = -1 /\ prevY = -1))
    /\ [][(<<prevX', prevY'>> # <<prevX, prevY>> /\ <<prevX', prevY'>> # <<-1, -1>>)
             => (pc = "mouse" /\ mouseHeld /\ steps' = Append(steps, "paint"))]_vars

\* A stroke that painted a grain has ended with a button release
C19_Witness ==
    /\ ~mouseHeld
    /\ frames = 2
    /\ pc = "mouse"
    /\ OccupiedCells(points) # {}
    /\ prevX = -1 /\ prevY = -1
====
